---- MODULE Spec2Model ----
(***************************************************************************)
(* Cyclic keyframe lookup, trail management and the visualization          *)
(* controller of directional-light-angle-sphere, with the timeline         *)
(* builder, the interpolation, the plane and torus projections and the     *)
(* card demo.                                                              *)
(*                                                                         *)
(* Numbers.  Cycle times and wall-clock instants are integers (one unit is *)
(* the resolution of the inputs).  An interpolation parameter is an exact  *)
(* fraction [num, den].  Directions are fixed-point vectors with Scale     *)
(* units per 1.0; angles are whole degrees and Math.sin is the table       *)
(* SinTable.                                                               *)
(***************************************************************************)
EXTENDS Integers, Sequences, FiniteSets, TLC

VARIABLES
    demoData,         \* the timeline: sequence of [time, x, y, z]
    cycleDuration,    \* the cycle duration handed to getCurrentKeyframes
    cycleTime,        \* the cycle time of the latest lookup
    sample,           \* result of the latest lookup and interpolation
    clock,            \* performance.now(), the wall clock
    startTime,        \* controller: start of the animation clock
    pauseOffset,      \* controller: elapsed time recorded by pause()
    isRunning,        \* controller: the running flag
    animationFrameId, \* controller: id of the last requested frame, 0 = null
    frames,           \* the browser's pending animation frame callbacks
    trailPoints,      \* the segment's trail: sequence of [position, timestamp]
    stopped,          \* history: stop() has returned
    paused,           \* history: pause() has returned, resume() not called since
    activeTime,       \* history: wall-clock time spent running
    wallPaused,       \* history: wall-clock time spent paused
    resumed,          \* history: resume() ran and no tick has run since
    pausedFor,        \* history: how long the pause that resume() ended lasted
    pushed,           \* history: every trail point pushed, in push order
    lastTick,         \* history: what the latest tick saw
    segmentTrails,    \* render over segments: one trail per segment
    currentDirections,\* render over segments: the directions of this tick
    tickPc,           \* render over segments: position within render
    tickLog,          \* history: what this tick did, as [op, idx] in order
    segmentPaths,     \* ring: the precomputed path of each segment
    pathPc,           \* ring: position within the path generation
    controller,       \* page: the controller the page references, 0 = null
    created,          \* page: the state of every controller ever returned
    handlers,         \* page: every call of bootstrap and selectPath so far
    currentPath,      \* page: the selected path
    reactIsRunning,   \* component: the isRunning state
    errorState,       \* component: the error state, "none" = null
    effects,          \* component: every instance of the effect so far
    raw,              \* generateSegmentData: the raw mapping, a set of
                      \*   [key, x, y] (hour, vertical, horizontal)
    dataCopy,         \* generateSegmentData: the clone of the raw mapping
    res,              \* generateSegmentData: the timeline built so far
    buildPc,          \* generateSegmentData: "clone", "lerp", "done",
                      \*   "empty" or "returned"
    buildI,           \* generateSegmentData: the loop index i
    buildT,           \* geometricSpheralLerp: the loop variable t
    segments,         \* the SegmentData[] that generateDemoData returns and
                      \*   initWebGPUVisualization reads
    initPc,           \* initWebGPUVisualization: "start", "running" or
                      \*   "rejected"
    thrown,           \* the message of the Error thrown, or "none"
    args,             \* a call of a pure function: its name and arguments
    out               \* that call's result, <<>> until it returns

bracketVars == <<demoData, cycleDuration, cycleTime, sample>>
controllerVars == <<clock, startTime, pauseOffset, isRunning, animationFrameId,
                    frames, trailPoints>>
historyVars == <<stopped, paused, activeTime, wallPaused, resumed, pausedFor,
                 pushed,
                 lastTick>>
buildVars == <<raw, dataCopy, res, buildPc, buildI, buildT, segments>>
initVars == <<initPc, thrown>>
callVars == <<args, out>>
segmentVars == <<segmentTrails, currentDirections, tickPc, tickLog>>
pathVars == <<segmentPaths, pathPc>>
pageVars == <<controller, created, handlers, currentPath>>
reactVars == <<reactIsRunning, errorState, effects>>

----------------------------------------------------------------------------
(* Bounds of the model *)

MaxCycle == 5
MaxKeyframes == 3
MaxStep == 2
MaxClock == 6         \* the wall clock stops at MaxClock
MaxTicks == 5         \* at most MaxTicks render callbacks push a point
InterpSteps == 4      \* interpolation parameters are n/d with d <= InterpSteps
MaxCardClock == 220   \* the card demo's clock stops at MaxCardClock
MaxHandlers == 4      \* page: bootstrap and at most MaxHandlers - 1 selections
MaxEffects == 4       \* component: at most MaxEffects - 1 clicks on the button
MaxDenominator == 6   \* closestFraction: maxDenominator is at most this
MaxValueNum == 9      \* closestFraction: value is p/q with |p| <= MaxValueNum
MaxValueDen == 7      \*   and 1 <= q <= MaxValueDen

\* The trail configuration, scaled down: the sphere and plane variants use
\* 3600 points and 6400 ms, the React card 100 points and 3000 ms.
maxTrailPoints == 3
trailFadeTime == 3

----------------------------------------------------------------------------
(* Fixed-point vector arithmetic *)

Max(a, b) == IF a >= b THEN a ELSE b
Min(a, b) == IF a <= b THEN a ELSE b

\* round(Scale * sin(d degrees)) for d = 0..90
SinTable ==
    << 0, 17, 35, 52, 70, 87, 105, 122, 139, 156, 174, 191, 208, 225, 242,
       259, 276, 292, 309, 326, 342, 358, 375, 391, 407, 423, 438, 454, 469,
       485, 500, 515, 530, 545, 559, 574, 588, 602, 616, 629, 643, 656, 669,
       682, 695, 707, 719, 731, 743, 755, 766, 777, 788, 799, 809, 819, 829,
       839, 848, 857, 866, 875, 883, 891, 899, 906, 914, 921, 927, 934, 940,
       946, 951, 956, 961, 966, 970, 974, 978, 982, 985, 988, 990, 993, 995,
       996, 998, 999, 999, 1000, 1000 >>

\* 1.0 in fixed point: sin(90 degrees)
Scale == SinTable[91]

\* Math.sin on [0, 180] degrees
Sin(d) == IF d <= 90 THEN SinTable[d + 1] ELSE SinTable[180 - d + 1]

\* Math.cos on [0, 180] degrees
Cos(d) == IF d <= 90 THEN SinTable[90 - d + 1] ELSE -SinTable[d - 90 + 1]

\* Math.acos on [-Scale, Scale]: the angle of the nearest table entry
\* at or below c
Acos(c) ==
    CHOOSE d \in 0..180 : Cos(d) <= c /\ (d = 0 \/ Cos(d - 1) > c)

Frac(n, d) == [num |-> n, den |-> d]

\* p < q, p <= q on fractions with positive denominators
FracLess(p, q) == p.num * q.den < q.num * p.den
FracLeq(p, q) == p.num * q.den <= q.num * p.den

\* angle * t for a fraction t, to the nearest degree
AngleTimes(theta, t) == (2 * theta * t.num + t.den) \div (2 * t.den)

Vec(v) == [x |-> v.x, y |-> v.y, z |-> v.z]

----------------------------------------------------------------------------
(* interpolateDirection *)

EpsilonMilliDeg == 57    \* theta < 0.001 rad, in thousandths of a degree

interpolateSwapped(dir1, dir2, t) ==
    LET dot == (dir1.x * dir2.x + dir1.y * dir2.y + dir1.z * dir2.z) \div Scale
        theta == Acos(Max(-Scale, Min(Scale, dot)))
    IN  IF theta * 1000 < EpsilonMilliDeg
        THEN [x |-> dir2.x + ((dir1.x - dir2.x) * t.num) \div t.den,
              y |-> dir2.y + ((dir1.y - dir2.y) * t.num) \div t.den,
              z |-> dir2.z + ((dir1.z - dir2.z) * t.num) \div t.den]
        ELSE LET sinTheta == Sin(theta)
                 w2 == (Sin(theta - AngleTimes(theta, t)) * Scale) \div sinTheta
                 w1 == (Sin(AngleTimes(theta, t)) * Scale) \div sinTheta
             IN  [x |-> (w1 * dir1.x + w2 * dir2.x) \div Scale,
                  y |-> (w1 * dir1.y + w2 * dir2.y) \div Scale,
                  z |-> (w1 * dir1.z + w2 * dir2.z) \div Scale]

interpolateDirection(dir1, dir2, t) ==
    LET dot == (dir1.x * dir2.x + dir1.y * dir2.y + dir1.z * dir2.z) \div Scale
        theta == Acos(Max(-Scale, Min(Scale, dot)))
    IN  IF theta * 1000 < EpsilonMilliDeg
        THEN [x |-> dir1.x + ((dir2.x - dir1.x) * t.num) \div t.den,
              y |-> dir1.y + ((dir2.y - dir1.y) * t.num) \div t.den,
              z |-> dir1.z + ((dir2.z - dir1.z) * t.num) \div t.den]
        ELSE LET sinTheta == Sin(theta)
                 w1 == (Sin(theta - AngleTimes(theta, t)) * Scale) \div sinTheta
                 w2 == (Sin(AngleTimes(theta, t)) * Scale) \div sinTheta
             IN  [x |-> (w1 * dir1.x + w2 * dir2.x) \div Scale,
                  y |-> (w1 * dir1.y + w2 * dir2.y) \div Scale,
                  z |-> (w1 * dir1.z + w2 * dir2.z) \div Scale]

----------------------------------------------------------------------------
(* getCurrentKeyframes.  Indices are 0-based as in the source; At reads   *)
(* element i of an array.                                                   *)

At(data, i) == data[i + 1]

\* findIndex(d => d.time >= ct)
findIndexInclusive(data, ct) ==
    IF \E i \in 0..(Len(data) - 1) : At(data, i).time >= ct
    THEN CHOOSE i \in 0..(Len(data) - 1) :
            /\ At(data, i).time >= ct
            /\ \A j \in 0..(i - 1) : ~(At(data, j).time >= ct)
    ELSE -1

\* Array.prototype.findIndex(d => d.time > ct): first match, or -1
findIndex(data, ct) ==
    IF \E i \in 0..(Len(data) - 1) : At(data, i).time > ct
    THEN CHOOSE i \in 0..(Len(data) - 1) :
            /\ At(data, i).time > ct
            /\ \A j \in 0..(i - 1) : ~(At(data, j).time > ct)
    ELSE -1

\* the wrap span taken as next.time - prev.time without the cycle
spanNoWrap(prev, next, cd) == next.time - prev.time

timeBetweenOf(prev, next, cd) ==
    IF next.time - prev.time <= 0
    THEN cd - prev.time + next.time
    ELSE next.time - prev.time

\* the lookup with the parameter 1 for a zero span
getCurrentKeyframesEndOfSpan(data, ct, cd) ==
    LET found == findIndex(data, ct)
        nextIndex == IF found = -1 THEN 0 ELSE found
        prevIndex == IF nextIndex = 0 THEN Len(data) - 1 ELSE nextIndex - 1
        prev == At(data, prevIndex)
        next == At(data, nextIndex)
        timeBetween == timeBetweenOf(prev, next, cd)
        adjustedTime == IF ct >= prev.time
                        THEN ct - prev.time
                        ELSE cd - prev.time + ct
        t == IF timeBetween = 0 THEN Frac(1, 1)
             ELSE IF next.time > prev.time
             THEN Frac(ct - prev.time, timeBetween)
             ELSE Frac(adjustedTime, timeBetween)
    IN  [prev |-> prev, next |-> next, t |-> t,
         prevIndex |-> prevIndex, nextIndex |-> nextIndex]

getCurrentKeyframes(data, ct, cd) ==
    LET found == findIndex(data, ct)
        nextIndex == IF found = -1 THEN 0 ELSE found
        prevIndex == IF nextIndex = 0 THEN Len(data) - 1 ELSE nextIndex - 1
        prev == At(data, prevIndex)
        next == At(data, nextIndex)
        timeBetween == timeBetweenOf(prev, next, cd)
        adjustedTime == IF ct >= prev.time
                        THEN ct - prev.time
                        ELSE cd - prev.time + ct
        t == IF next.time > prev.time
             THEN (IF timeBetween = 0 THEN Frac(0, 1)
                   ELSE Frac(ct - prev.time, timeBetween))
             ELSE (IF timeBetween = 0 THEN Frac(0, 1)
                   ELSE Frac(adjustedTime, timeBetween))
    IN  [prev |-> prev, next |-> next, t |-> t,
         prevIndex |-> prevIndex, nextIndex |-> nextIndex]

\* one lookup followed by the interpolation, as every render loop does
Lookup(data, ct, cd) ==
    LET k == getCurrentKeyframes(data, ct, cd)
    IN  [prev |-> k.prev, next |-> k.next, t |-> k.t,
         prevIndex |-> k.prevIndex, nextIndex |-> k.nextIndex,
         direction |-> interpolateDirection(k.prev, k.next, k.t)]

----------------------------------------------------------------------------
(* Timelines handed to the lookup *)

\* unit directions; a keyframe's direction is decided by its time, so
\* keyframes that share a time share a direction
Directions ==
    << [x |-> 1000, y |-> 0, z |-> 0],
       [x |-> 600, y |-> 800, z |-> 0],
       [x |-> 0, y |-> 600, z |-> 800],
       [x |-> 0, y |-> 0, z |-> 1000] >>

DirAt(time) == Directions[(time % Len(Directions)) + 1]

Keyframe(time) ==
    LET d == DirAt(time) IN [time |-> time, x |-> d.x, y |-> d.y, z |-> d.z]

IsSorted(data) ==
    \A i \in 1..(Len(data) - 1) : data[i].time <= data[i + 1].time

\* every timeline of 1..MaxKeyframes keyframes, sorted ascending, with
\* times in [0, cd]
Timelines(cd) ==
    LET times == UNION {[1..n -> 0..cd] : n \in 1..MaxKeyframes}
    IN  {[i \in 1..Len(ts) |-> Keyframe(ts[i])] :
            ts \in {s \in times : \A i \in 1..(Len(s) - 1) : s[i] <= s[i + 1]}}

\* keyframes at hours 0, 6 and 18 of a 24-hour cycle, in tenths of an hour
ExampleTimeline == <<Keyframe(0), Keyframe(60), Keyframe(180)>>
ExampleCycle == 24 * 10

NoBuild ==
    /\ raw = {} /\ dataCopy = {} /\ res = <<>>
    /\ buildPc = "idle" /\ buildI = 0 /\ buildT = 0

NoInit == initPc = "idle" /\ thrown = "none"

NoCall == args = [fn |-> "none"] /\ out = [done |-> FALSE]

\* no page and no component
NoPage ==
    /\ controller = 0 /\ created = <<>> /\ handlers = <<>>
    /\ currentPath = "default"
    /\ reactIsRunning = TRUE /\ errorState = "none" /\ effects = <<>>

NoSegmentTick ==
    /\ segmentTrails = <<>> /\ currentDirections = <<>>
    /\ tickPc = [at |-> "idle", idx |-> 0] /\ tickLog = <<>>
    /\ segmentPaths = <<>> /\ pathPc = [at |-> "idle", idx |-> 0, i |-> 0]

NoTick == [n |-> 0, elapsed |-> 0, active |-> 0, nowMs |-> 0, agedOut |-> 0,
           afterStop |-> FALSE, afterResume |-> FALSE, pausedFor |-> 0,
           ages |-> <<>>]

InitBracket ==
    /\ \/ \E cd \in 1..MaxCycle : \E tl \in Timelines(cd) :
            demoData = tl /\ cycleDuration = cd
       \/ demoData = ExampleTimeline /\ cycleDuration = ExampleCycle
    /\ cycleTime = 0
    /\ sample = Lookup(demoData, 0, cycleDuration)
    /\ clock = 0 /\ startTime = 0 /\ pauseOffset = 0
    /\ isRunning = FALSE /\ animationFrameId = 0 /\ frames = {}
    /\ trailPoints = <<>>
    /\ stopped = FALSE /\ paused = FALSE /\ activeTime = 0 /\ wallPaused = 0
    /\ resumed = FALSE /\ pausedFor = 0 /\ pushed = <<>> /\ lastTick = NoTick
    /\ NoBuild /\ segments = <<>>
    /\ NoInit
    /\ NoCall
    /\ NoPage
    /\ NoSegmentTick

\* the cycle clock moves on and the segment is sampled again
SampleNext ==
    \E d \in 1..MaxStep :
        /\ cycleTime' = (cycleTime + d) % cycleDuration
        /\ sample' = Lookup(demoData, cycleTime', cycleDuration)
        /\ UNCHANGED <<demoData, cycleDuration>>
        /\ UNCHANGED <<controllerVars, historyVars, buildVars, initVars,
                       pageVars, reactVars,
                       pathVars, segmentVars,
                       callVars>>

vars == <<bracketVars, controllerVars, historyVars, buildVars, initVars,
          callVars, segmentVars, pathVars, pageVars, reactVars>>

NextBracket == SampleNext

SpecBracket == InitBracket /\ [][NextBracket]_vars

----------------------------------------------------------------------------
(* The trail: push, then the age rule, then the capacity rule *)

RECURSIVE evictOldInclusive(_, _, _)
evictOldInclusive(points, nowMs, fadeTime) ==
    IF Len(points) > 0 /\ nowMs - points[1].timestamp >= fadeTime
    THEN evictOldInclusive(Tail(points), nowMs, fadeTime)
    ELSE points

\* while (points.length > 0 && nowMs - points[0].timestamp > trailFadeTime)
\*     points.shift()
RECURSIVE evictOld(_, _, _)
evictOld(points, nowMs, fadeTime) ==
    IF Len(points) > 0 /\ nowMs - points[1].timestamp > fadeTime
    THEN evictOld(Tail(points), nowMs, fadeTime)
    ELSE points

capacityNone(points, maxPoints) == points

capacityDropNewest(points, maxPoints) ==
    IF Len(points) > maxPoints THEN SubSeq(points, 1, Len(points) - 1) ELSE points

\* if (points.length > maxTrailPoints) points.shift()
capacityOneOver(points, maxPoints) ==
    IF Len(points) > maxPoints + 1 THEN Tail(points) ELSE points

capacityRule(points, maxPoints) ==
    IF Len(points) > maxPoints THEN Tail(points) ELSE points

TrailPoint(direction, nowMs) ==
    [position |-> <<direction.x, direction.y, direction.z>>, timestamp |-> nowMs]

\* the time left of the fade window, in place of the time used
ageRemaining(nowMs, timestamp) ==
    Frac(Max(0, trailFadeTime - (nowMs - timestamp)), trailFadeTime)

\* Math.min(1, (nowMs - point.timestamp) / trailFadeTime)
ageOf(nowMs, timestamp) ==
    Frac(Min(trailFadeTime, nowMs - timestamp), trailFadeTime)

\* the fourth component of every vertex written to the trail buffer
trailAges(points, nowMs) ==
    [i \in 1..Len(points) |-> ageOf(nowMs, points[i].timestamp)]

updateTrail(points, direction, nowMs) ==
    capacityRule(evictOld(Append(points, TrailPoint(direction, nowMs)),
                          nowMs, trailFadeTime),
                 maxTrailPoints)

----------------------------------------------------------------------------
(* The VisualizationController and its render loop *)

animationSpeed == 10

ControllerTimeline == <<Keyframe(0), Keyframe(6), Keyframe(18), Keyframe(24)>>

\* requestAnimationFrame hands out an id no pending or remembered frame has
FreshId(used) == CHOOSE i \in 1..(Cardinality(used) + 1) : i \notin used

UsedIds == {f.id : f \in frames} \cup {animationFrameId}

cancelAnimationFrame(id) == {f \in frames : f.id # id}

resumeStartNoOffset(now, offset) == now

\* startTime = performance.now() - pauseOffset
resumeStart(now, offset) == now - offset

\* elapsedSeconds % cycleDuration
cycleTimeOf(now, start, cd) ==
    IF cd = 0 THEN 0 ELSE ((now - start) * animationSpeed) % cd

Segment(directions) == [id |-> 0, directions |-> directions]

\* what generateDemoData(pathKey).filter(s => s.id == 0) can hand to
\* initWebGPUVisualization: no segment, a segment whose last keyframe has no
\* time or a time that is not positive, and a playable segment
Datasets ==
    { <<>>,
      <<Segment(<<>>)>>,
      <<Segment(<<Keyframe(0)>>)>>,
      <<Segment(<<Keyframe(0 - 1)>>)>>,
      <<Segment(ControllerTimeline)>> }

\* segments[0].directions[segments[0].directions.length - 1]?.time ?? 0
cycleDurationOf(segs) ==
    LET directions == segs[1].directions
    IN  IF Len(directions) = 0 THEN 0 ELSE directions[Len(directions)].time

\* the guard on the cycle duration taken as cycleDuration < 0
initErrorNegativeOnly(segs) ==
    IF Len(segs) = 0 THEN "No segment data found."
    ELSE IF cycleDurationOf(segs) < 0 THEN "Demo data is empty."
    ELSE "none"

\* the Error that initWebGPUVisualization throws for a dataset, or "none"
initError(segs) ==
    IF Len(segs) = 0 THEN "No segment data found."
    ELSE IF cycleDurationOf(segs) <= 0 THEN "Demo data is empty."
    ELSE "none"

\* initWebGPUVisualization has been called and has not passed its checks
InitController ==
    /\ segments \in Datasets
    /\ initPc = "start"
    /\ thrown = "none"
    /\ demoData = <<>>
    /\ cycleDuration = 0
    /\ cycleTime = 0
    /\ sample = [t |-> Frac(0, 1)]
    /\ clock \in 0..1
    /\ startTime = 0
    /\ pauseOffset = 0
    /\ isRunning = FALSE
    /\ animationFrameId = 0
    /\ frames = {}
    /\ trailPoints = <<>>
    /\ stopped = FALSE /\ paused = FALSE /\ activeTime = 0 /\ wallPaused = 0
    /\ resumed = FALSE /\ pausedFor = 0 /\ pushed = <<>> /\ lastTick = NoTick
    /\ NoBuild
    /\ NoCall
    /\ NoPage
    /\ NoSegmentTick

\* the body of initWebGPUVisualization: it throws, or it builds the
\* controller, requests the first frame and returns the controller
initWebGPUVisualization ==
    /\ initPc = "start"
    /\ IF initError(segments) # "none"
       THEN /\ thrown' = initError(segments)
            /\ initPc' = "rejected"
            /\ UNCHANGED <<bracketVars, controllerVars>>
       ELSE /\ demoData' = segments[1].directions
            /\ cycleDuration' = cycleDurationOf(segments)
            /\ startTime' = clock
            /\ isRunning' = TRUE
            /\ animationFrameId' = FreshId(UsedIds)
            /\ frames' = frames \cup {[id |-> animationFrameId', at |-> clock]}
            /\ initPc' = "running"
            /\ UNCHANGED <<cycleTime, sample, clock, pauseOffset, trailPoints,
                           thrown>>
    /\ UNCHANGED <<historyVars, buildVars, callVars, segmentVars, pathVars,
                   pageVars, reactVars>>

\* wall-clock time passes
Advance ==
    \E d \in {1} :
        /\ initPc = "running"
        /\ clock + d <= MaxClock
        /\ clock' = clock + d
        /\ activeTime' = IF isRunning THEN activeTime + d ELSE activeTime
        /\ wallPaused' = IF ~isRunning /\ ~stopped THEN wallPaused + d ELSE wallPaused
        /\ UNCHANGED <<bracketVars, startTime, pauseOffset, isRunning,
                       animationFrameId, frames, trailPoints,
                       stopped, paused, resumed, pausedFor, pushed,
                       lastTick, buildVars,
                       initVars, pageVars, reactVars, pathVars,
                       segmentVars, callVars>>

\* pause() that records the offset and leaves the loop running
PauseOffsetOnly ==
    /\ initPc = "running"
    /\ paused' = TRUE
    /\ pauseOffset' = IF isRunning THEN clock - startTime ELSE pauseOffset
    /\ UNCHANGED <<bracketVars, clock, startTime, isRunning, frames,
                   animationFrameId, trailPoints, stopped, activeTime,
                   wallPaused, resumed, pausedFor, pushed, lastTick, buildVars,
                   initVars, pageVars, reactVars, pathVars, segmentVars,
                   callVars>>

Pause ==
    /\ initPc = "running"
    /\ paused' = TRUE
    /\ IF ~isRunning
       THEN UNCHANGED <<isRunning, pauseOffset, frames, animationFrameId>>
       ELSE /\ isRunning' = FALSE
            /\ pauseOffset' = clock - startTime
            /\ IF animationFrameId # 0
               THEN /\ frames' = cancelAnimationFrame(animationFrameId)
                    /\ animationFrameId' = 0
               ELSE UNCHANGED <<frames, animationFrameId>>
    /\ UNCHANGED <<bracketVars, clock, startTime, trailPoints, stopped,
                   activeTime, wallPaused, resumed, pausedFor, pushed,
                   lastTick,
                   buildVars, initVars, pageVars, reactVars, pathVars,
                   segmentVars, callVars>>

\* resume() that moves the trail's timestamps forward by the pause
ResumeShiftsTrail ==
    /\ initPc = "running"
    /\ paused' = FALSE
    /\ IF isRunning
       THEN UNCHANGED <<isRunning, startTime, frames, animationFrameId,
                        resumed, pausedFor, trailPoints>>
       ELSE /\ isRunning' = TRUE
            /\ startTime' = resumeStart(clock, pauseOffset)
            /\ animationFrameId' = FreshId(UsedIds)
            /\ frames' = frames \cup {[id |-> animationFrameId', at |-> clock]}
            /\ resumed' = TRUE
            /\ pausedFor' = IF stopped THEN 0
                            ELSE clock - (startTime + pauseOffset)
            /\ trailPoints' =
                  [i \in 1..Len(trailPoints) |->
                      [trailPoints[i] EXCEPT !.timestamp = @ + pausedFor']]
    /\ UNCHANGED <<bracketVars, clock, pauseOffset, stopped, activeTime,
                   wallPaused, pushed, lastTick, buildVars, initVars,
                   pageVars, reactVars, pathVars,
                   segmentVars, callVars>>

\* resume() without its early return
ResumeUnguarded ==
    /\ initPc = "running"
    /\ paused' = FALSE
    /\ isRunning' = TRUE
    /\ startTime' = resumeStart(clock, pauseOffset)
    /\ animationFrameId' = FreshId(UsedIds)
    /\ frames' = frames \cup {[id |-> animationFrameId', at |-> clock]}
    /\ resumed' = TRUE
    /\ pausedFor' = IF stopped THEN 0 ELSE clock - (startTime + pauseOffset)
    /\ UNCHANGED <<bracketVars, clock, pauseOffset, trailPoints,
                   stopped, activeTime, wallPaused, pushed, lastTick, buildVars,
                   initVars, pageVars, reactVars, pathVars, segmentVars,
                   callVars>>

Resume ==
    /\ initPc = "running"
    /\ paused' = FALSE
    /\ IF isRunning
       THEN UNCHANGED <<isRunning, startTime, frames, animationFrameId,
                        resumed, pausedFor>>
       ELSE /\ isRunning' = TRUE
            /\ startTime' = resumeStart(clock, pauseOffset)
            /\ animationFrameId' = FreshId(UsedIds)
            /\ frames' = frames \cup {[id |-> animationFrameId', at |-> clock]}
            /\ resumed' = TRUE
            /\ pausedFor' = IF stopped THEN 0
                            ELSE clock - (startTime + pauseOffset)
    /\ UNCHANGED <<bracketVars, clock, pauseOffset, trailPoints,
                   stopped, activeTime, wallPaused, pushed, lastTick, buildVars,
                   initVars, pageVars, reactVars, pathVars, segmentVars,
                   callVars>>

Stop ==
    /\ initPc = "running"
    /\ isRunning' = FALSE
    /\ IF animationFrameId # 0
       THEN /\ frames' = cancelAnimationFrame(animationFrameId)
            /\ animationFrameId' = 0
       ELSE UNCHANGED <<frames, animationFrameId>>
    /\ stopped' = TRUE
    /\ UNCHANGED <<bracketVars, clock, startTime, pauseOffset, trailPoints,
                   paused, activeTime, wallPaused, resumed, pausedFor,
                   pushed, lastTick,
                   buildVars,
                   initVars, pageVars, reactVars, pathVars, segmentVars,
                   callVars>>

\* the browser runs a pending frame callback: render(now)
Tick ==
    \E f \in frames : \E delta \in 0..1 :
        /\ UNCHANGED <<buildVars, initVars, pageVars, reactVars, pathVars,
                       segmentVars, callVars>>
        /\ clock > f.at
        /\ clock + delta <= MaxClock
        /\ Len(pushed) < MaxTicks
        /\ IF ~isRunning
           THEN /\ frames' = frames \ {f}
                /\ UNCHANGED <<bracketVars, clock, startTime, pauseOffset,
                               isRunning, animationFrameId, trailPoints,
                               historyVars>>
           ELSE LET now == clock
                    nowMs == clock + delta
                    ct == cycleTimeOf(now, startTime, cycleDuration)
                    smp == Lookup(demoData, ct, cycleDuration)
                    point == TrailPoint(smp.direction, nowMs)
                    afterAge == evictOld(Append(trailPoints, point), nowMs,
                                         trailFadeTime)
                    id == FreshId(UsedIds \ {f.id})
                IN  /\ cycleTime' = ct
                    /\ sample' = smp
                    /\ trailPoints' = updateTrail(trailPoints, smp.direction, nowMs)
                    /\ animationFrameId' = id
                    /\ frames' = (frames \ {f}) \cup {[id |-> id, at |-> nowMs]}
                    /\ clock' = nowMs
                    /\ activeTime' = activeTime + delta
                    /\ pushed' = Append(pushed, point)
                    /\ resumed' = FALSE
                    /\ pausedFor' = 0
                    /\ lastTick' = [n |-> lastTick.n + 1,
                                    elapsed |-> now - startTime,
                                    active |-> activeTime,
                                    nowMs |-> nowMs,
                                    agedOut |-> Len(trailPoints) + 1 - Len(afterAge),
                                    afterStop |-> stopped,
                                    afterResume |-> resumed,
                                    pausedFor |-> pausedFor,
                                    ages |-> trailAges(trailPoints', nowMs)]
                    /\ UNCHANGED <<demoData, cycleDuration, startTime,
                                   pauseOffset, isRunning, stopped, paused,
                                   wallPaused>>

Next == initWebGPUVisualization \/ Advance \/ Pause \/ Resume \/ Stop \/ Tick

Spec == InitController /\ [][Next]_vars

----------------------------------------------------------------------------
(* generateSegmentData and geometricSpheralLerp.                           *)
(*                                                                         *)
(* Sample times are IEEE doubles.  Every double in [16, 32) is a multiple  *)
(* of 2^-48; Dbl(hi, lo) is hi * 2^-24 + lo * 2^-48 with 0 <= lo < 2^24.   *)
(* The model takes raw keys in [16, 24), where the addition t += 0.01 is   *)
(* exact in these units: the double 0.01 is 5764607523034235 * 2^-59, that *)
(* is 2814749767106 + 1147/2048 units of 2^-48, and round-to-nearest takes *)
(* every sum up to the next unit.                                          *)

Limb == 2 ^ 24

Dbl(hi, lo) == [hi |-> hi, lo |-> lo]

DblOfInt(n) == Dbl(n * Limb, 0)

DblLeq(a, b) == a.hi < b.hi \/ (a.hi = b.hi /\ a.lo <= b.lo)

DblLess(a, b) == a.hi < b.hi \/ (a.hi = b.hi /\ a.lo < b.lo)

\* 0.01 rounded up to the 2^-48 grid: 2814749767107 = 167772 * 2^24 + 2684355
Step001 == Dbl(167772, 2684355)

\* t += 0.01
DblAddStep(t) ==
    LET lo == t.lo + Step001.lo
    IN  Dbl(t.hi + Step001.hi + (lo \div Limb), lo % Limb)

\* a double as a fixed-point number of 2^-12 hours, for the division that
\* computes progress
ToTicks(d) == d.hi \div (2 ^ 12)

\* Math.sin and Math.cos on [-180, 180] degrees
SinDeg(a) == IF a < 0 THEN -Sin(-a) ELSE Sin(a)
CosDeg(a) == IF a < 0 THEN Cos(-a) ELSE Cos(a)

\* Math.sqrt on fixed-point squares
Isqrt(n) == CHOOSE r \in 0..(2 * Scale) : r * r <= n /\ n < (r + 1) * (r + 1)

rad2Point(direction) ==
    [x |-> (CosDeg(direction.vertical) * (-SinDeg(direction.horizontal))) \div Scale,
     z |-> (CosDeg(direction.vertical) * CosDeg(direction.horizontal)) \div Scale,
     y |-> -SinDeg(direction.vertical)]

Normalized(v) ==
    LET length == Isqrt(v.x * v.x + v.y * v.y + v.z * v.z)
    IN  [x |-> (v.x * Scale) \div length,
         y |-> (v.y * Scale) \div length,
         z |-> (v.z * Scale) \div length]

\* the body of the loop of geometricSpheralLerp for one t; the slerp and
\* the linear blend are those of interpolateDirection
lerpSample(start, end, t) ==
    LET startVec == rad2Point(start.direction)
        endVec == rad2Point(end.direction)
        progress == Frac(ToTicks(t) - ToTicks(start.timestamp),
                         ToTicks(end.timestamp) - ToTicks(start.timestamp))
        v == Normalized(interpolateDirection(startVec, endVec, progress))
    IN  [x |-> v.x, y |-> v.y, z |-> v.z, time |-> t]

\* the raw hour-to-angle entries the inputs are drawn from: hours 23,
\* 23.01 and 23.5 with angles in degrees
RawEntries ==
    { [key |-> DblOfInt(23), x |-> -30, y |-> -60],
      [key |-> Dbl(386043740, 2684355), x |-> -20, y |-> 30],
      [key |-> Dbl(47 * (2 ^ 23), 0), x |-> -45, y |-> -120] }

RECURSIVE SortKeys(_)
SortKeys(ks) ==
    IF ks = {} THEN <<>>
    ELSE LET m == CHOOSE k \in ks : \A o \in ks : DblLeq(k, o)
         IN  <<m>> \o SortKeys(ks \ {m})

\* Object.keys(dataCopy).map(Number).filter(k => !isNaN(k)).sort(...)
keysOf(data) == SortKeys({e.key : e \in data})

\* [...keys, 24]
sortedKeysOf(data) == Append(keysOf(data), DblOfInt(24))

\* dataCopy[k]
dataCopyAt(data, k) == CHOOSE e \in data : e.key = k

\* data with data[24] = data[keys[0]] assigned
WithWrapAround(data) ==
    LET first == dataCopyAt(data, keysOf(data)[1])
    IN  {e \in data : e.key # DblOfInt(24)}
            \cup {[key |-> DblOfInt(24), x |-> first.x, y |-> first.y]}

RadPoint(data, k) ==
    [timestamp |-> k,
     direction |-> [vertical |-> dataCopyAt(data, k).x,
                    horizontal |-> dataCopyAt(data, k).y]]

IdleLookup ==
    /\ demoData = <<>> /\ cycleDuration = 0 /\ cycleTime = 0
    /\ sample = [t |-> Frac(0, 1)]

IdleController ==
    /\ clock = 0 /\ startTime = 0 /\ pauseOffset = 0
    /\ isRunning = FALSE /\ animationFrameId = 0 /\ frames = {}
    /\ trailPoints = <<>>
    /\ stopped = FALSE /\ paused = FALSE /\ activeTime = 0 /\ wallPaused = 0
    /\ resumed = FALSE /\ pausedFor = 0 /\ pushed = <<>> /\ lastTick = NoTick

InitBuild ==
    /\ raw \in SUBSET RawEntries
    /\ dataCopy = {}
    /\ res = <<>>
    /\ segments = <<>>
    /\ NoInit
    /\ NoCall
    /\ NoPage
    /\ NoSegmentTick
    /\ buildI = 0
    /\ buildPc = "clone" /\ buildT = DblOfInt(0)
    /\ IdleLookup
    /\ IdleController

\* the wrap-around entry assigned to the mapping itself, dataCopy being
\* another name for data
wrapInPlace ==
    /\ buildPc = "clone"
    /\ IF keysOf(raw) = <<>>
       THEN /\ dataCopy' = raw
            /\ raw' = raw
            /\ buildPc' = "empty" /\ buildT' = DblOfInt(0)
       ELSE /\ dataCopy' = WithWrapAround(raw)
            /\ raw' = WithWrapAround(raw)
            /\ buildPc' = "lerp" /\ buildT' = sortedKeysOf(raw)[1]
    /\ UNCHANGED <<res, buildI, segments>>
    /\ UNCHANGED <<bracketVars, controllerVars, historyVars, initVars,
                   pageVars, reactVars,
                   pathVars, segmentVars, callVars>>

\* generateSegmentData up to its loop: the clone, the keys, the early return
\* for no keys, the wrap-around entry of the clone
cloneAndWrap ==
    /\ buildPc = "clone"
    /\ IF keysOf(raw) = <<>>
       THEN /\ dataCopy' = raw
            /\ buildPc' = "empty" /\ buildT' = DblOfInt(0)
       ELSE /\ dataCopy' = WithWrapAround(raw)
            /\ buildPc' = "lerp" /\ buildT' = sortedKeysOf(raw)[1]
    /\ UNCHANGED <<raw, res, buildI, segments>>
    /\ UNCHANGED <<bracketVars, controllerVars, historyVars, initVars,
                   pageVars, reactVars,
                   pathVars, segmentVars, callVars>>

\* one iteration of the loop of geometricSpheralLerp
LerpStep ==
    LET keys == sortedKeysOf(raw)
        start == RadPoint(dataCopy, keys[buildI + 1])
        end == RadPoint(dataCopy, keys[buildI + 2])
    IN  /\ buildPc = "lerp"
        /\ DblLeq(buildT, end.timestamp)
        /\ res' = Append(res, lerpSample(start, end, buildT))
        /\ buildT' = DblAddStep(buildT)
        /\ UNCHANGED <<raw, dataCopy, buildPc, buildI, segments>>
        /\ UNCHANGED <<bracketVars, controllerVars, historyVars, initVars,
                       pageVars, reactVars,
                       pathVars, segmentVars, callVars>>

\* the loop of geometricSpheralLerp ends; generateSegmentData moves to the
\* next pair of keys, or returns
LerpReturn ==
    LET keys == sortedKeysOf(raw)
        end == RadPoint(dataCopy, keys[buildI + 2])
    IN  /\ buildPc = "lerp"
        /\ ~DblLeq(buildT, end.timestamp)
        /\ buildI' = buildI + 1
        /\ IF buildI + 1 < Len(keys) - 1
           THEN buildPc' = "lerp" /\ buildT' = keys[buildI + 2]
           ELSE buildPc' = "done" /\ buildT' = buildT
        /\ UNCHANGED <<raw, dataCopy, res, segments>>
        /\ UNCHANGED <<bracketVars, controllerVars, historyVars, initVars,
                       pageVars, reactVars,
                       pathVars, segmentVars, callVars>>

\* generateSegmentData has returned its directions to generateDemoData,
\* which pushes the segment when directions.length > 0 and returns
generateDemoData ==
    /\ buildPc \in {"done", "empty"}
    /\ segments' = IF Len(res) > 0 THEN <<Segment(res)>> ELSE <<>>
    /\ buildPc' = "returned"
    /\ UNCHANGED <<raw, dataCopy, res, buildI, buildT>>
    /\ UNCHANGED <<bracketVars, controllerVars, historyVars, initVars,
                   pageVars, reactVars,
                   pathVars, segmentVars, callVars>>

NextBuild == cloneAndWrap \/ LerpStep \/ LerpReturn \/ generateDemoData

SpecBuild == InitBuild /\ [][NextBuild]_vars

\* a timeline being built, or a controller running on a built timeline
InitTimelines == InitBuild \/ InitController

NextTimelines ==
    \/ buildPc # "idle" /\ NextBuild
    \/ buildPc = "idle" /\ Next

SpecTimelines == InitTimelines /\ [][NextTimelines]_vars

----------------------------------------------------------------------------
(* interpolateDirection as a function of two unit vectors and a parameter *)

Vector3(x, y, z) == [x |-> x, y |-> y, z |-> z]

\* unit vectors in fixed point: the six axis directions, two oblique
\* directions, the antipode of one of them, and a direction within the
\* table's resolution of +x
UnitVectors ==
    { Vector3(1000, 0, 0), Vector3(0 - 1000, 0, 0),
      Vector3(0, 1000, 0), Vector3(0, 0 - 1000, 0),
      Vector3(0, 0, 1000), Vector3(0, 0, 0 - 1000),
      Vector3(600, 800, 0), Vector3(0 - 600, 0 - 800, 0),
      Vector3(0, 600, 800), Vector3(1000, 17, 0) }

Parameters == {Frac(n, d) : n \in 0..InterpSteps, d \in 1..InterpSteps} \cap
              {f \in [num : 0..InterpSteps, den : 1..InterpSteps] : f.num <= f.den}

\* dot and theta as interpolateDirection computes them.  Math.acos(-1) is
\* the double nearest pi, whose Math.sin is 1.22e-16 and not 0; the table
\* likewise gives exactly opposite vectors the largest angle whose sine is
\* not zero.
dotOf(dir1, dir2) == (dir1.x * dir2.x + dir1.y * dir2.y + dir1.z * dir2.z) \div Scale

thetaOf(dir1, dir2) == Acos(Max(-Scale, Min(Scale, dotOf(dir1, dir2))))

\* theta < 0.001
usesFallback(dir1, dir2) == thetaOf(dir1, dir2) * 1000 < EpsilonMilliDeg

\* Math.sqrt(x * x + y * y + z * z)
Length(v) == Isqrt(v.x * v.x + v.y * v.y + v.z * v.z)

IdleAll ==
    /\ IdleLookup
    /\ IdleController
    /\ NoBuild /\ segments = <<>>
    /\ NoInit
    /\ NoSegmentTick
    /\ NoPage

InitInterp ==
    /\ \E a \in UnitVectors, b \in UnitVectors, t \in Parameters :
            args = [fn |-> "interpolateDirection", a |-> a, b |-> b, t |-> t]
    /\ out = [done |-> FALSE]
    /\ IdleAll

\* the call interpolateDirection(a, b, t) returns
interpolateCall ==
    /\ args.fn = "interpolateDirection"
    /\ ~out.done
    /\ out' = [done |-> TRUE, v |-> interpolateDirection(args.a, args.b, args.t)]
    /\ UNCHANGED <<args, bracketVars, controllerVars, historyVars, buildVars,
                   initVars, pageVars, reactVars, pathVars, segmentVars>>

NextInterp == interpolateCall

SpecInterp == InitInterp /\ [][NextInterp]_vars

Returned == args.fn = "interpolateDirection" /\ out.done

Antipodal(a, b) == dotOf(a, b) <= -Scale

\* C13: interpolateDirection is total over unit vectors: coincident and
\* antipodal pairs both take the linear fallback, the slerp branch never
\* divides by a zero sin(theta), and the result is a direction (not the
\* zero vector).
C13_DegenerateHandled ==
    Returned =>
        /\ (args.a = args.b \/ Antipodal(args.a, args.b)) =>
                usesFallback(args.a, args.b)
        /\ ~usesFallback(args.a, args.b) => Sin(thetaOf(args.a, args.b)) # 0
        /\ out.v # Vector3(0, 0, 0)

\* C14: interpolateDirection(a, b, 0) is a and interpolateDirection(a, b, 1)
\* is b, on the slerp branch and on the linear fallback.
C14_Endpoints ==
    Returned =>
        /\ (args.t.num = 0) => out.v = args.a
        /\ (args.t.num = args.t.den) => out.v = args.b

\* t = 1 on the slerp branch, between two different directions
C14_Witness ==
    /\ Returned
    /\ args.t.num = args.t.den
    /\ ~usesFallback(args.a, args.b)
    /\ args.a # args.b
    /\ out.v = args.b

\* t = 0 on the linear fallback, between two different directions
C14_WitnessFallback ==
    /\ Returned
    /\ args.t.num = 0
    /\ usesFallback(args.a, args.b)
    /\ args.a # args.b
    /\ out.v = args.a

Abs(n) == IF n < 0 THEN -n ELSE n

\* C15: the result of interpolateDirection has length 1 to within a few
\* percent (the resolution of the table), and on the linear fallback to
\* within 0.01.
C15_UnitLength ==
    Returned =>
        /\ Abs(Length(out.v) - Scale) <= Scale \div 20
        /\ usesFallback(args.a, args.b) =>
                Abs(Length(out.v) - Scale) < Scale \div 100

----------------------------------------------------------------------------
(* The capacity rule as a function of a trail *)

RECURSIVE Ascending(_)
Ascending(ts) ==
    IF ts = {} THEN <<>>
    ELSE LET m == CHOOSE k \in ts : \A o \in ts : k <= o
         IN  <<m>> \o Ascending(ts \ {m})

\* trails of every length up to MaxClock + 1, one point per timestamp, in
\* push order
TrailOf(ts) ==
    LET order == Ascending(ts)
    IN  [i \in 1..Len(order) |-> TrailPoint(DirAt(order[i]), order[i])]

InitCapacity ==
    /\ \E ts \in SUBSET (0..MaxClock) :
            args = [fn |-> "capacityRule", points |-> TrailOf(ts)]
    /\ out = [done |-> FALSE]
    /\ IdleAll

\* if (trail.points.length > maxTrailPoints) trail.points.shift()
capacityCall ==
    /\ args.fn = "capacityRule"
    /\ ~out.done
    /\ out' = [done |-> TRUE, points |-> capacityRule(args.points, maxTrailPoints)]
    /\ UNCHANGED <<args, bracketVars, controllerVars, historyVars, buildVars,
                   initVars, pageVars, reactVars, pathVars, segmentVars>>

NextCapacity == capacityCall

SpecCapacity == InitCapacity /\ [][NextCapacity]_vars

----------------------------------------------------------------------------
(* projectToPlane and projectToTorus *)

\* the divisor with an epsilon of 0.1
planeDivisorWide(direction) == Scale + direction.y + Scale \div 10

\* 1 + direction.y + 0.01
planeDivisor(direction) == Scale + direction.y + Scale \div 100

\* 1 / (1 + direction.y + 0.01), in fixed point
planeScale(direction) == (Scale * Scale) \div planeDivisor(direction)

projectToPlane(direction) ==
    [x |-> (direction.x * planeScale(direction)) \div Scale,
     z |-> (direction.z * planeScale(direction)) \div Scale]

\* the defaults of projectToTorus
majorRadius == (3 * Scale) \div 2
minorRadius == (6 * Scale) \div 10

\* Math.sin and Math.cos on [-180, 540) degrees
Turn(a) == IF a > 180 THEN a - 360 ELSE a
SinTurn(a) == SinDeg(Turn(a))
CosTurn(a) == CosDeg(Turn(a))

\* Math.sqrt for the projected distance, which the epsilon bounds by 100
SqrtWide(n) ==
    CHOOSE r \in 0..(200 * Scale) : r * r <= n /\ n < (r + 1) * (r + 1)

\* the major angle without the quarter turn
majorAngleNoOffset(time) == (time * 360) \div 24

\* (time / 24) * Math.PI * 2 - Math.PI / 2, in degrees
majorAngleOf(time) == (time * 360) \div 24 - 90

\* cos and sin of Math.atan2(projZ, projX) are projX / distance and
\* projZ / distance, and 1 and 0 at the origin
torusPoint(majorAngle, direction) ==
    LET projX == (direction.x * planeScale(direction)) \div Scale
        projZ == (direction.z * planeScale(direction)) \div Scale
        distance == SqrtWide(projX * projX + projZ * projZ)
        radiusOnTube == (Min(distance, Scale) * minorRadius * 9) \div (Scale * 10)
        tubeX == IF distance = 0 THEN radiusOnTube
                 ELSE (radiusOnTube * projX) \div distance
        tubeY == IF distance = 0 THEN 0
                 ELSE (radiusOnTube * projZ) \div distance
        centerX == (majorRadius * CosTurn(majorAngle)) \div Scale
        centerZ == (majorRadius * SinTurn(majorAngle)) \div Scale
    IN  [x |-> centerX + (tubeX * CosTurn(majorAngle)) \div Scale,
         y |-> tubeY,
         z |-> centerZ + (tubeX * SinTurn(majorAngle)) \div Scale]

projectToTorus(time, direction) == torusPoint(majorAngleOf(time), direction)

\* directions handed to the projections: the unit vectors above and
\* directions built from angles, down to the pole y = -1
ProjectionInputs ==
    UnitVectors \cup
    { Vec(rad2Point([vertical |-> v, horizontal |-> h])) :
        v \in {0 - 90, 0 - 45, 0, 45, 89, 90}, h \in {0 - 90, 0, 90, 180} }

Hours == 0..24

InitProject ==
    /\ \/ \E d \in ProjectionInputs :
            args = [fn |-> "projectToPlane", direction |-> d]
       \/ \E d \in ProjectionInputs, time \in Hours :
            args = [fn |-> "projectToTorus", time |-> time, direction |-> d]
    /\ out = [done |-> FALSE]
    /\ IdleAll

planeCall ==
    /\ args.fn = "projectToPlane"
    /\ ~out.done
    /\ out' = [done |-> TRUE, v |-> projectToPlane(args.direction)]
    /\ UNCHANGED <<args, bracketVars, controllerVars, historyVars, buildVars,
                   initVars, pageVars, reactVars, pathVars, segmentVars>>

torusCall ==
    /\ args.fn = "projectToTorus"
    /\ ~out.done
    /\ out' = [done |-> TRUE, v |-> projectToTorus(args.time, args.direction)]
    /\ UNCHANGED <<args, bracketVars, controllerVars, historyVars, buildVars,
                   initVars, pageVars, reactVars, pathVars, segmentVars>>

NextProject == planeCall \/ torusCall

SpecProject == InitProject /\ [][NextProject]_vars

\* C18: projectToPlane maps the pole (0, 1, 0) to the centre (0, 0) and the
\* equatorial direction (1, 0, 0) to distance 1/1.01 from the centre; for
\* every unit direction the divisor 1 + y + 0.01 is positive.
C18_PlaneProjection ==
    (args.fn = "projectToPlane") =>
        /\ planeDivisor(args.direction) > 0
        /\ (out.done /\ args.direction = Vector3(0, Scale, 0)) =>
                out.v = [x |-> 0, z |-> 0]
        /\ (out.done /\ args.direction = Vector3(Scale, 0, 0)) =>
                /\ out.v.z = 0
                /\ out.v.x = (Scale * 100) \div 101
                /\ Scale - out.v.x <= Scale \div 100

\* the equatorial direction was projected, and so was the pole y = -1
C18_Witness ==
    /\ args.fn = "projectToPlane" /\ out.done
    /\ args.direction = Vector3(Scale, 0, 0)
    /\ out.v.x > 0 /\ out.v.x < Scale

C18_WitnessSouthPole ==
    /\ args.fn = "projectToPlane" /\ out.done
    /\ args.direction.y = -Scale
    /\ planeDivisor(args.direction) = Scale \div 100

\* squared distance between two points
Dist2(p, q) ==
    (p.x - q.x) * (p.x - q.x) + (p.y - q.y) * (p.y - q.y)
        + (p.z - q.z) * (p.z - q.z)

\* 0.9 * minorRadius, and one unit for each rounded component
TubeReach == (9 * minorRadius) \div 10 + 3

\* C19 as stated: at time = 0 the ring centre is (majorRadius, 0, 0) and the
\* returned point lies within 0.9 * minorRadius of it.
C19_CentreOnXAxis ==
    (args.fn = "projectToTorus" /\ out.done /\ args.time = 0) =>
        Dist2(out.v, Vector3(majorRadius, 0, 0)) <= TubeReach * TubeReach

\* C19 amended: at time = 0 the major angle is -90 degrees and the ring
\* centre is (0, 0, -majorRadius); it is (majorRadius, 0, 0) at time = 6.
\* The returned point lies within 0.9 * minorRadius of the ring centre.
C19_CentreAtQuarterTurn ==
    (args.fn = "projectToTorus" /\ out.done) =>
        /\ (args.time = 0) =>
                Dist2(out.v, Vector3(0, 0, -majorRadius)) <= TubeReach * TubeReach
        /\ (args.time = 6) =>
                Dist2(out.v, Vector3(majorRadius, 0, 0)) <= TubeReach * TubeReach

\* time = 0 with a direction whose cross-section offset is not zero
C19_Witness ==
    /\ args.fn = "projectToTorus" /\ out.done
    /\ args.time = 0
    /\ args.direction = Vector3(Scale, 0, 0)
    /\ out.v # Vector3(0, 0, -majorRadius)
    /\ out.v.x = 0

----------------------------------------------------------------------------
(* The card demo: its figure-8 demo data and its render loop.  One unit of *)
(* time is the spacing of the keyframes, duration / numPoints seconds.     *)

numPoints == 200
duration == 20

\* units of time per second
PerSecond == numPoints \div duration

\* the lemniscate point i of generateDemoData, normalized; the angle
\* t = (i / numPoints) * 2 pi is taken to the whole degree below
figure8Point(i) ==
    LET t == (i * 360) \div numPoints
        a == (8 * Scale) \div 10
        denominator == Scale + (SinTurn(t) * SinTurn(t)) \div Scale
        x == (a * CosTurn(t)) \div denominator
        y == (((a * SinTurn(t)) \div Scale) * CosTurn(t)) \div denominator
        z == Sin(t \div 2) \div 2
        v == Normalized(Vector3(x, y, z))
    IN  [x |-> v.x, y |-> v.y, z |-> v.z,
         time |-> (i * duration * PerSecond) \div numPoints]

\* generateDemoData() of the card demo: i = 0 .. numPoints - 1
figure8DemoData == [k \in 1..numPoints |-> figure8Point(k - 1)]

\* the lookup written out in the card's render
cardLookup(data, ct) ==
    LET found == findIndex(data, ct)
        nextIndex == IF found = -1 THEN 0 ELSE found
        prevIndex == IF nextIndex = 0 THEN Len(data) - 1 ELSE nextIndex - 1
        prev == At(data, prevIndex)
        next == At(data, nextIndex)
        timeBetween == next.time - prev.time
        t == IF timeBetween > 0 THEN Frac(ct - prev.time, timeBetween)
             ELSE Frac(0, 1)
    IN  [prev |-> prev, next |-> next, t |-> t,
         prevIndex |-> prevIndex, nextIndex |-> nextIndex,
         direction |-> interpolateDirection(prev, next, t)]

InitCard ==
    /\ demoData = figure8DemoData
    /\ cycleDuration = 0
    /\ cycleTime = 0
    /\ sample = [t |-> Frac(0, 1)]
    /\ clock = 0 /\ startTime = 0 /\ pauseOffset = 0
    /\ isRunning = TRUE
    /\ animationFrameId = 0 /\ frames = {}
    /\ trailPoints = <<>>
    /\ stopped = FALSE /\ paused = FALSE /\ activeTime = 0 /\ wallPaused = 0
    /\ resumed = FALSE /\ pausedFor = 0 /\ pushed = <<>> /\ lastTick = NoTick
    /\ NoBuild /\ segments = <<>>
    /\ NoInit
    /\ NoCall
    /\ NoPage
    /\ NoSegmentTick

\* one call of the card's render, at a later Date.now()
cardRender ==
    \E d \in 1..MaxStep :
        LET now == clock + d
            elapsed == now - startTime
            cd == demoData[Len(demoData)].time
            ct == elapsed % cd
            smp == cardLookup(demoData, ct)
            id == FreshId(UsedIds)
        IN  /\ isRunning
            /\ now <= MaxCardClock
            /\ clock' = now
            /\ cycleDuration' = cd
            /\ cycleTime' = ct
            /\ sample' = smp
            /\ trailPoints' = updateTrail(trailPoints, smp.direction, now)
            /\ animationFrameId' = id
            /\ frames' = {[id |-> id, at |-> now]}
            /\ UNCHANGED <<demoData, startTime, pauseOffset, isRunning,
                           historyVars, buildVars, initVars, pageVars,
                           reactVars, pathVars,
                           segmentVars, callVars>>

NextCard == cardRender

SpecCard == InitCard /\ [][NextCard]_vars

\* C20: the demo animation is a cycle of numPoints keyframes lasting
\* duration seconds: the render loop wraps elapsed time at duration seconds.
C20_CycleIsDuration ==
    (animationFrameId # 0) =>
        /\ Len(demoData) = numPoints
        /\ cycleDuration = duration * PerSecond
        /\ cycleTime = (clock - startTime) % (duration * PerSecond)

----------------------------------------------------------------------------
(* render over several segments, statement by statement: the map that       *)
(* computes currentDirections, the forEach that updates the trails, and the *)
(* frame request.                                                           *)

\* segment lists whose first segment gives the cycle duration 24
SegmentLists ==
    LET a == ControllerTimeline
        b == <<Keyframe(0), Keyframe(13), Keyframe(24)>>
        c == <<Keyframe(0), Keyframe(3), Keyframe(10), Keyframe(24)>>
    IN  { <<Segment(a)>>,
          <<Segment(a), Segment(b)>>,
          <<Segment(a), Segment(b), Segment(c)>> }

\* the controller as initWebGPUVisualization returns it
InitSegments ==
    /\ segments \in SegmentLists
    /\ initPc = "running" /\ thrown = "none"
    /\ demoData = segments[1].directions
    /\ cycleDuration = cycleDurationOf(segments)
    /\ cycleTime = 0
    /\ sample = [t |-> Frac(0, 1)]
    /\ clock = 0 /\ startTime = 0 /\ pauseOffset = 0
    /\ isRunning = TRUE
    /\ animationFrameId = 1
    /\ frames = {[id |-> 1, at |-> 0]}
    /\ trailPoints = <<>>
    /\ stopped = FALSE /\ paused = FALSE /\ activeTime = 0 /\ wallPaused = 0
    /\ resumed = FALSE /\ pausedFor = 0 /\ pushed = <<>> /\ lastTick = NoTick
    /\ segmentTrails = [i \in 1..Len(segments) |-> <<>>]
    /\ currentDirections = <<>>
    /\ tickPc = [at |-> "idle", idx |-> 0]
    /\ tickLog = <<>>
    /\ segmentPaths = <<>> /\ pathPc = [at |-> "idle", idx |-> 0, i |-> 0]
    /\ NoBuild
    /\ NoCall
    /\ NoPage

\* render(now) up to the map: the early return, cycleTime and nowMs
renderBegin ==
    \E f \in frames : \E delta \in 0..1 :
        /\ tickPc.at = "idle"
        /\ clock > f.at
        /\ clock + delta <= MaxClock
        /\ frames' = frames \ {f}
        /\ IF ~isRunning
           THEN UNCHANGED <<cycleTime, clock, lastTick, segmentVars>>
           ELSE /\ cycleTime' = cycleTimeOf(clock, startTime, cycleDuration)
                /\ clock' = clock + delta
                /\ lastTick' = [lastTick EXCEPT !.n = @ + 1,
                                                !.elapsed = clock - startTime,
                                                !.nowMs = clock + delta]
                /\ currentDirections' = <<>>
                /\ tickLog' = <<>>
                /\ tickPc' = [at |-> "map", idx |-> 1]
                /\ UNCHANGED segmentTrails
        /\ UNCHANGED <<demoData, cycleDuration, sample, startTime, pauseOffset,
                       isRunning, animationFrameId, trailPoints, stopped,
                       paused, activeTime, wallPaused, resumed, pausedFor,
                       pushed,
                       buildVars, initVars, pageVars, reactVars, pathVars,
                       callVars>>

\* a log entry: the step, the segment, the time the step used and the
\* length of the segment's trail after it
LogEntry(op, idx, time, count) ==
    [op |-> op, idx |-> idx, time |-> time, count |-> count]

\* one callback of segments.map: bracket, then interpolate
mapSegment ==
    /\ tickPc.at = "map"
    /\ LET idx == tickPc.idx
           k == getCurrentKeyframes(segments[idx].directions, cycleTime,
                                    cycleDuration)
           direction == interpolateDirection(k.prev, k.next, k.t)
       IN  /\ currentDirections' = Append(currentDirections, direction)
           /\ tickLog' = tickLog \o
                  <<LogEntry("bracket", idx, cycleTime, Len(segmentTrails[idx])),
                    LogEntry("interpolate", idx, cycleTime,
                             Len(segmentTrails[idx]))>>
           /\ tickPc' = IF idx < Len(segments)
                        THEN [at |-> "map", idx |-> idx + 1]
                        ELSE [at |-> "forEach", idx |-> 1]
    /\ UNCHANGED <<bracketVars, controllerVars, historyVars, buildVars,
                   initVars, pageVars, reactVars, pathVars, callVars,
                   segmentTrails>>

\* the forEach callback with timestamp: performance.now() read per segment
forEachOwnClock ==
    /\ tickPc.at = "forEach"
    /\ LET idx == tickPc.idx
       IN  /\ segmentTrails' =
                  [segmentTrails EXCEPT
                      ![idx] = updateTrail(@, currentDirections[idx], clock)]
           /\ tickLog' = tickLog \o
                  <<LogEntry("push", idx, clock, Len(segmentTrails[idx]) + 1),
                    LogEntry("evict", idx, clock, Len(segmentTrails'[idx]))>>
           /\ tickPc' = IF idx < Len(segments)
                        THEN [at |-> "forEach", idx |-> idx + 1]
                        ELSE [at |-> "upload", idx |-> 1]
    /\ UNCHANGED <<bracketVars, controllerVars, historyVars, buildVars,
                   initVars, pageVars, reactVars, pathVars, callVars,
                   currentDirections>>

\* one callback of segments.forEach: push, age eviction, capacity rule
forEachSegment ==
    /\ tickPc.at = "forEach"
    /\ LET idx == tickPc.idx
           nowMs == lastTick.nowMs
       IN  /\ segmentTrails' =
                  [segmentTrails EXCEPT
                      ![idx] = updateTrail(@, currentDirections[idx], nowMs)]
           /\ tickLog' = tickLog \o
                  <<LogEntry("push", idx, nowMs, Len(segmentTrails[idx]) + 1),
                    LogEntry("evict", idx, nowMs, Len(segmentTrails'[idx]))>>
           /\ tickPc' = IF idx < Len(segments)
                        THEN [at |-> "forEach", idx |-> idx + 1]
                        ELSE [at |-> "upload", idx |-> 1]
    /\ UNCHANGED <<bracketVars, controllerVars, historyVars, buildVars,
                   initVars, pageVars, reactVars, pathVars, callVars,
                   currentDirections>>

\* the points one writeBuffer or draw call takes from a trail
trailVertices(points) == Len(points)

\* one callback of the forEach that updates the per-segment buffers: the
\* trail is written to trailBuffer when it has a point
uploadSegment ==
    /\ tickPc.at = "upload"
    /\ LET idx == tickPc.idx
           trail == segmentTrails[idx]
       IN  /\ tickLog' = IF Len(trail) > 0
                         THEN Append(tickLog,
                                     LogEntry("upload", idx, lastTick.nowMs,
                                              trailVertices(trail)))
                         ELSE tickLog
           /\ tickPc' = IF idx < Len(segments)
                        THEN [at |-> "upload", idx |-> idx + 1]
                        ELSE [at |-> "draw", idx |-> 1]
    /\ UNCHANGED <<bracketVars, controllerVars, historyVars, buildVars,
                   initVars, pageVars, reactVars, pathVars, callVars,
                   segmentTrails,
                   currentDirections>>

\* one callback of the forEach that draws the trails: a trail of more than
\* one point is drawn from trailBuffer
drawSegment ==
    /\ tickPc.at = "draw"
    /\ LET idx == tickPc.idx
           trail == segmentTrails[idx]
       IN  /\ tickLog' = IF Len(trail) > 1
                         THEN Append(tickLog,
                                     LogEntry("draw", idx, lastTick.nowMs,
                                              trailVertices(trail)))
                         ELSE tickLog
           /\ tickPc' = IF idx < Len(segments)
                        THEN [at |-> "draw", idx |-> idx + 1]
                        ELSE [at |-> "request", idx |-> 0]
    /\ UNCHANGED <<bracketVars, controllerVars, historyVars, buildVars,
                   initVars, pageVars, reactVars, pathVars, callVars,
                   segmentTrails,
                   currentDirections>>

\* the last statement of render
requestNextFrame ==
    /\ tickPc.at = "request"
    /\ animationFrameId' = FreshId(UsedIds)
    /\ frames' = frames \cup {[id |-> animationFrameId', at |-> clock]}
    /\ tickPc' = [at |-> "idle", idx |-> 0]
    /\ UNCHANGED <<bracketVars, clock, startTime, pauseOffset, isRunning,
                   trailPoints, historyVars, buildVars, initVars, pageVars,
                   reactVars, pathVars,
                   callVars,
                   segmentTrails, currentDirections, tickLog>>

NextSegments ==
    \/ renderBegin
    \/ mapSegment
    \/ forEachSegment
    \/ uploadSegment
    \/ drawSegment
    \/ requestNextFrame
    \/ Advance

SpecSegments == InitSegments /\ [][NextSegments]_vars

----------------------------------------------------------------------------
(* The ring variant's full path: generated on the first tick, 241 samples   *)
(* per segment.  Times are in tenths of an hour, so that every sample time  *)
(* (i / samples) * cycleDuration is a whole number.                         *)

samples == 240
pathBufferPoints == 500

RingPerHour == ExampleCycle \div 24

\* segment lists for the ring; the first segment's last keyframe gives the
\* cycle duration
RingSegmentLists ==
    LET a == <<Keyframe(0), Keyframe(61), Keyframe(182), Keyframe(240)>>
        b == <<Keyframe(21), Keyframe(130), Keyframe(239)>>
        c == <<Keyframe(21), Keyframe(130), Keyframe(240)>>
    IN  { <<Segment(a)>>, <<Segment(a), Segment(b)>>, <<Segment(c)>> }

InitPath ==
    /\ segments \in RingSegmentLists
    /\ initPc = "running" /\ thrown = "none"
    /\ demoData = segments[1].directions
    /\ cycleDuration = cycleDurationOf(segments)
    /\ cycleTime = 0
    /\ sample = [t |-> Frac(0, 1)]
    /\ IdleController
    /\ segmentTrails = <<>> /\ currentDirections = <<>>
    /\ tickPc = [at |-> "idle", idx |-> 0] /\ tickLog = <<>>
    /\ segmentPaths = [i \in 1..Len(segments) |-> <<>>]
    /\ pathPc = [at |-> "idle", idx |-> 0, i |-> 0]
    /\ NoBuild
    /\ NoCall
    /\ NoPage

\* the next segment of segments.forEach, or the end of the forEach
NextPathSegment(idx) ==
    IF idx < Len(segments)
    THEN [at |-> "segment", idx |-> idx + 1, i |-> 0]
    ELSE [at |-> "upload", idx |-> 1, i |-> 0]

\* a tick reaches the forEach that generates the paths
pathBegin ==
    /\ pathPc.at = "idle"
    /\ lastTick.n < MaxTicks
    /\ lastTick' = [lastTick EXCEPT !.n = @ + 1]
    /\ pathPc' = [at |-> "segment", idx |-> 1, i |-> 0]
    /\ tickLog' = <<>>
    /\ UNCHANGED <<bracketVars, controllerVars, stopped, paused, activeTime,
                   wallPaused, resumed, pausedFor, pushed, buildVars,
                   initVars, pageVars, reactVars, callVars,
                   segmentTrails, currentDirections, tickPc, segmentPaths>>

\* if (path.points.length === 0): enter the sample loop, or pass
pathSegment ==
    /\ pathPc.at = "segment"
    /\ pathPc' = IF Len(segmentPaths[pathPc.idx]) = 0
                 THEN [at |-> "sample", idx |-> pathPc.idx, i |-> 0]
                 ELSE NextPathSegment(pathPc.idx)
    /\ UNCHANGED <<bracketVars, controllerVars, historyVars, buildVars,
                   initVars, pageVars, reactVars, callVars, segmentVars,
                   segmentPaths>>

\* one iteration of for (let i = 0; i <= samples; i++)
pathSample ==
    /\ pathPc.at = "sample"
    /\ LET idx == pathPc.idx
           i == pathPc.i
           time == (i * cycleDuration) \div samples
           smp == Lookup(segments[idx].directions, time, cycleDuration)
           majorAngle == (time * 360) \div (24 * RingPerHour) - 90
           pos == torusPoint(majorAngle, smp.direction)
       IN  /\ cycleTime' = time
           /\ sample' = smp
           /\ segmentPaths' = [segmentPaths EXCEPT ![idx] = Append(@, pos)]
           /\ pathPc' = IF i + 1 <= samples
                        THEN [at |-> "sample", idx |-> idx, i |-> i + 1]
                        ELSE NextPathSegment(idx)
    /\ UNCHANGED <<demoData, cycleDuration, controllerVars, historyVars,
                   buildVars, initVars, pageVars, reactVars, callVars,
                   segmentVars>>

\* one callback of the forEach that updates the per-segment buffers: the
\* path is written to pathBuffer when it has a point
pathUpload ==
    /\ pathPc.at = "upload"
    /\ LET idx == pathPc.idx
           path == segmentPaths[idx]
       IN  /\ tickLog' = IF Len(path) > 0
                         THEN Append(tickLog,
                                     LogEntry("uploadPath", idx, 0, Len(path)))
                         ELSE tickLog
           /\ pathPc' = IF idx < Len(segments)
                        THEN [at |-> "upload", idx |-> idx + 1, i |-> 0]
                        ELSE [at |-> "draw", idx |-> 1, i |-> 0]
    /\ UNCHANGED <<bracketVars, controllerVars, historyVars, buildVars,
                   initVars, pageVars, reactVars, callVars, segmentTrails,
                   currentDirections,
                   tickPc, segmentPaths>>

\* one callback of the forEach that draws the paths from pathBuffer
pathDraw ==
    /\ pathPc.at = "draw"
    /\ LET idx == pathPc.idx
           path == segmentPaths[idx]
       IN  /\ tickLog' = IF Len(path) > 0
                         THEN Append(tickLog,
                                     LogEntry("drawPath", idx, 0, Len(path)))
                         ELSE tickLog
           /\ pathPc' = IF idx < Len(segments)
                        THEN [at |-> "draw", idx |-> idx + 1, i |-> 0]
                        ELSE [at |-> "idle", idx |-> 0, i |-> 0]
    /\ UNCHANGED <<bracketVars, controllerVars, historyVars, buildVars,
                   initVars, pageVars, reactVars, callVars, segmentTrails,
                   currentDirections,
                   tickPc, segmentPaths>>

NextPath ==
    pathBegin \/ pathSegment \/ pathSample \/ pathUpload \/ pathDraw

\* the sphere variant keeps trails and no paths, the ring variant paths
InitBuffers == InitSegments \/ InitPath

NextBuffers ==
    \/ segmentPaths = <<>> /\ NextSegments
    \/ segmentPaths # <<>> /\ NextPath

SpecBuffers == InitBuffers /\ [][NextBuffers]_vars

SpecPath == InitPath /\ [][NextPath]_vars

----------------------------------------------------------------------------
(* The page: bootstrap and selectPath share the variable controller and     *)
(* each awaits initWebGPUVisualization.                                     *)

Paths == {"default", "a", "b"}

\* paths for which the awaited initWebGPUVisualization throws (no adapter,
\* no device, or no segment data for the path)
PathsWithoutData == {"b"}

Handler(fn, path) == [fn |-> fn, path |-> path, pc |-> "awaiting"]

\* controller?.stop()
stopOf(states, id) ==
    IF id = 0 THEN states ELSE [states EXCEPT ![id] = "stopped"]

\* bootstrap() has run up to its await
InitPage ==
    /\ controller = 0
    /\ created = <<>>
    /\ handlers = <<Handler("bootstrap", "default")>>
    /\ currentPath = "default"
    /\ reactIsRunning = TRUE /\ errorState = "none" /\ effects = <<>>
    /\ IdleLookup /\ IdleController
    /\ NoBuild /\ segments = <<>>
    /\ NoInit
    /\ NoSegmentTick
    /\ NoCall

\* a click on a path of the list: selectPath up to its await
selectPath ==
    \E path \in Paths :
        /\ Len(handlers) < MaxHandlers
        /\ path # currentPath
        /\ currentPath' = path
        /\ created' = stopOf(created, controller)
        /\ controller' = 0
        /\ handlers' = Append(handlers, Handler("selectPath", path))
        /\ UNCHANGED <<bracketVars, controllerVars, historyVars, buildVars,
                       initVars, reactVars, pathVars, segmentVars, callVars>>

\* an awaited initWebGPUVisualization returns a controller, whose loop
\* runs, and the handler assigns it
initReturns ==
    \E n \in 1..Len(handlers) :
        /\ handlers[n].pc = "awaiting"
        /\ handlers[n].path \notin PathsWithoutData
        /\ created' = Append(created, "running")
        /\ controller' = Len(created) + 1
        /\ handlers' = [handlers EXCEPT ![n].pc = "done"]
        /\ UNCHANGED <<bracketVars, controllerVars, historyVars, buildVars,
                       initVars, reactVars, pathVars, segmentVars, callVars,
                       currentPath>>

\* an awaited initWebGPUVisualization throws and the handler reports it
initThrows ==
    \E n \in 1..Len(handlers) :
        /\ handlers[n].pc = "awaiting"
        /\ handlers[n].path \in PathsWithoutData
        /\ handlers' = [handlers EXCEPT ![n].pc = "failed"]
        /\ UNCHANGED <<bracketVars, controllerVars, historyVars, buildVars,
                       initVars, reactVars, pathVars, segmentVars, callVars,
                       controller, created, currentPath>>

NextPage == selectPath \/ initReturns \/ initThrows

SpecPage == InitPage /\ [][NextPage]_vars

----------------------------------------------------------------------------
(* The React component: the state isRunning, and one instance of the       *)
(* effect per value of it, each with its own animationFrameId and its own  *)
(* render closure.                                                          *)

Effect(running) ==
    [isRunning |-> running, pc |-> "init", animationFrameId |-> 0,
     cleaned |-> FALSE, ticks |-> 0]

\* the cleanup of an effect: if (animationFrameId) cancelAnimationFrame(...)
cleanupOf(effect) ==
    [effect EXCEPT !.cleaned = TRUE,
                   !.pc = IF effect.animationFrameId # 0 /\ @ = "looping"
                          THEN "cancelled" ELSE @]

\* render(): the early return on the isRunning of the closure, or a tick
\* and the request of the next frame
renderOf(effect) ==
    IF ~effect.isRunning
    THEN [effect EXCEPT !.pc = "returned"]
    ELSE [effect EXCEPT !.pc = "looping",
                        !.animationFrameId = effect.ticks + 1,
                        !.ticks = @ + 1]

\* the component is mounted and the first effect has called init()
InitReact ==
    /\ reactIsRunning = TRUE
    /\ errorState = "none"
    /\ effects = <<Effect(TRUE)>>
    /\ controller = 0 /\ created = <<>> /\ handlers = <<>>
    /\ currentPath = "default"
    /\ IdleLookup /\ IdleController
    /\ NoBuild /\ segments = <<>>
    /\ NoInit
    /\ NoSegmentTick
    /\ NoCall

\* a click on the Pause / Play button: setIsRunning(!isRunning), then the
\* commit: the cleanup of the last effect and the next effect
clickToggle ==
    /\ errorState = "none"
    /\ Len(effects) < MaxEffects
    /\ reactIsRunning' = ~reactIsRunning
    /\ effects' = Append([effects EXCEPT ![Len(effects)] = cleanupOf(@)],
                         Effect(reactIsRunning'))
    /\ UNCHANGED <<bracketVars, controllerVars, historyVars, buildVars,
                   initVars, pageVars, pathVars, segmentVars, callVars,
                   errorState>>

\* init() of an effect gets its adapter and device and calls render()
initCallsRender ==
    \E e \in 1..Len(effects) :
        /\ effects[e].pc = "init"
        /\ effects' = [effects EXCEPT ![e] = renderOf(@)]
        /\ UNCHANGED <<bracketVars, controllerVars, historyVars, buildVars,
                       initVars, pageVars, pathVars, segmentVars, callVars,
                       reactIsRunning, errorState>>

\* init() of an effect throws and setError shows the error
initCatches ==
    \E e \in 1..Len(effects) :
        /\ effects[e].pc = "init"
        /\ effects' = [effects EXCEPT ![e].pc = "failed"]
        /\ errorState' = "No GPU adapter found"
        /\ UNCHANGED <<bracketVars, controllerVars, historyVars, buildVars,
                       initVars, pageVars, pathVars, segmentVars, callVars,
                       reactIsRunning>>

\* the browser runs the frame callback of an effect: render()
frameCallback ==
    \E e \in 1..Len(effects) :
        /\ effects[e].pc = "looping"
        /\ effects[e].ticks < MaxTicks
        /\ effects' = [effects EXCEPT ![e] = renderOf(@)]
        /\ UNCHANGED <<bracketVars, controllerVars, historyVars, buildVars,
                       initVars, pageVars, pathVars, segmentVars, callVars,
                       reactIsRunning, errorState>>

NextReact == clickToggle \/ initCallsRender \/ initCatches \/ frameCallback

SpecReact == InitReact /\ [][NextReact]_vars

----------------------------------------------------------------------------
(* closestFraction.  A finite value is an exact fraction p/q; errors are   *)
(* exact fractions too.                                                     *)

\* Math.abs(a - b) for fractions with positive denominators
FracAbsDiff(a, b) ==
    Frac(Abs(a.num * b.den - b.num * a.den), a.den * b.den)

\* Math.round(absValue * den) for absValue >= 0: halves round up
RoundTimes(absValue, den) ==
    (2 * absValue.num * den + absValue.den) \div (2 * absValue.den)

\* the while (true) loop: left and right bound absValue, best is the closest
\* mediant met so far
RECURSIVE mediantSearch(_, _, _, _, _)
mediantSearch(absValue, maxDenominator, left, right, best) ==
    LET mediant == Frac(left.num + right.num, left.den + right.den)
        error == FracAbsDiff(absValue, mediant)
        bestError == FracAbsDiff(absValue, best)
        closer == FracLess(error, bestError)
        nextBest == IF closer THEN mediant ELSE best
    IN  IF mediant.num >= maxDenominator \/ mediant.den >= maxDenominator
        THEN best
        ELSE IF closer /\ error.num = 0
        THEN nextBest
        ELSE IF FracLess(mediant, absValue)
        THEN mediantSearch(absValue, maxDenominator, mediant, right, nextBest)
        ELSE mediantSearch(absValue, maxDenominator, left, mediant, nextBest)

\* for (let den = 1; den < maxDenominator; den++): the rounded numerator
\* for every denominator
RECURSIVE boundaryCheck(_, _, _, _)
boundaryCheck(absValue, maxDenominator, den, best) ==
    IF ~(den < maxDenominator) THEN best
    ELSE LET num == RoundTimes(absValue, den)
             closer == /\ num < maxDenominator
                       /\ FracLess(FracAbsDiff(absValue, Frac(num, den)),
                                   FracAbsDiff(absValue, best))
         IN  boundaryCheck(absValue, maxDenominator, den + 1,
                           IF closer THEN Frac(num, den) ELSE best)

\* the result of closestFraction, or the message of the Error it throws
closestFraction(value, maxDenominator) ==
    IF maxDenominator <= 0
    THEN [thrown |-> "maxDenominator must be positive"]
    ELSE IF value.kind # "finite"
    THEN [thrown |-> "value must be a finite number"]
    ELSE IF value.num = 0
    THEN [thrown |-> "none", numerator |-> 0, denominator |-> 1]
    ELSE LET isNegative == value.num < 0
             absValue == Frac(Abs(value.num), value.den)
             found == mediantSearch(absValue, maxDenominator,
                                    Frac(0, 1), Frac(1, 0), Frac(0, 1))
             best == boundaryCheck(absValue, maxDenominator, 1, found)
         IN  [thrown |-> "none",
              numerator |-> IF isNegative THEN -best.num ELSE best.num,
              denominator |-> best.den]

\* finite values p/q, and the values that are not finite
FractionValues ==
    { [kind |-> "finite", num |-> n, den |-> d] :
        n \in (-MaxValueNum)..MaxValueNum, d \in 1..MaxValueDen }
    \cup { [kind |-> k, num |-> 0, den |-> 1] : k \in {"NaN", "Infinity"} }

InitFraction ==
    /\ \E v \in FractionValues, m \in (-1)..MaxDenominator :
            args = [fn |-> "closestFraction", value |-> v, maxDenominator |-> m]
    /\ out = [done |-> FALSE]
    /\ IdleAll

fractionCall ==
    /\ args.fn = "closestFraction"
    /\ ~out.done
    /\ out' = [done |-> TRUE,
               v |-> closestFraction(args.value, args.maxDenominator)]
    /\ UNCHANGED <<args, bracketVars, controllerVars, historyVars, buildVars,
                   initVars, pageVars, reactVars, pathVars, segmentVars>>

NextFraction == fractionCall

SpecFraction == InitFraction /\ [][NextFraction]_vars

FractionReturned == args.fn = "closestFraction" /\ out.done

Sign(n) == IF n < 0 THEN -1 ELSE IF n > 0 THEN 1 ELSE 0

\* the result is within the bounds that maxDenominator sets
InBounds(r, m) ==
    /\ r.denominator >= 1
    /\ r.denominator < m
    /\ Abs(r.numerator) < m

\* no fraction within the bounds is closer to value than r
Closest(r, value, m) ==
    \A n \in (-m)..m, d \in 1..m :
        (Abs(n) < m /\ d < m) =>
            FracLeq(FracAbsDiff(value, Frac(r.numerator, r.denominator)),
                    FracAbsDiff(value, Frac(n, d)))

\* the call throws exactly for maxDenominator <= 0 or a value not finite
ThrowsAsDocumented ==
    (out.v.thrown # "none") <=>
        (args.maxDenominator <= 0 \/ args.value.kind # "finite")

\* C21 as stated: for every finite value and every positive maxDenominator
\* the result has denominator >= 1, numerator magnitude and denominator
\* smaller than maxDenominator, the sign of value, and the least distance to
\* value among such fractions; the call throws otherwise.
C21_ClosestWithinBounds ==
    FractionReturned =>
        /\ ThrowsAsDocumented
        /\ (out.v.thrown = "none") =>
                /\ InBounds(out.v, args.maxDenominator)
                /\ Sign(out.v.numerator) \in {0, Sign(args.value.num)}
                /\ Closest(out.v, args.value, args.maxDenominator)


\* (t - prev.time) modulo the cycle: how far t lies into the bracket that
\* starts at prev
OffsetInBracket(ct, smp) == (ct - smp.prev.time) % cycleDuration

HasLater(ct) == \E i \in 1..Len(demoData) : demoData[i].time > ct

\* C1: for a timeline sorted ascending and a cycle time in
\* [0, cycleDuration), next is the first keyframe with time > t, or the
\* first keyframe when there is none; prev is the keyframe cyclically
\* before next; and prev.time <= t < next.time in cyclic order.
C1_CyclicBracket ==
    (IsSorted(demoData) /\ cycleTime \in 0..(cycleDuration - 1)) =>
        LET n == sample.nextIndex
            p == sample.prevIndex
            len == Len(demoData)
        IN  /\ sample.prev = demoData[p + 1]
            /\ sample.next = demoData[n + 1]
            /\ IF HasLater(cycleTime)
               THEN /\ demoData[n + 1].time > cycleTime
                    /\ \A j \in 1..n : demoData[j].time <= cycleTime
               ELSE n = 0
            /\ p = (n + len - 1) % len
            /\ IF sample.prev.time < sample.next.time
               THEN sample.prev.time <= cycleTime /\ cycleTime < sample.next.time
               ELSE cycleTime >= sample.prev.time \/ cycleTime < sample.next.time

\* keyframes {0, 6, 18}, cycle 24, t = 23.9: prev = 18, next = 0 by wrap
C1_Witness ==
    /\ demoData = ExampleTimeline
    /\ cycleTime = 239
    /\ sample.prev.time = 180
    /\ sample.next.time = 0
    /\ sample.nextIndex = 0

\* C2: the interpolation parameter lies in [0, 1); the wrap bracket divides
\* by cycleDuration - prev.time + next.time; and within one bracket, taken
\* in cyclic order from prev.time, the parameter never decreases.
C2_ParamRange ==
    /\ sample.t.den > 0
    /\ sample.t.num >= 0
    /\ sample.t.num < sample.t.den
    /\ (sample.next.time <= sample.prev.time) =>
            sample.t.den = cycleDuration - sample.prev.time + sample.next.time

C2_MonotoneStep ==
    ( /\ sample'.prevIndex = sample.prevIndex
      /\ OffsetInBracket(cycleTime', sample') >= OffsetInBracket(cycleTime, sample) )
        => FracLeq(sample.t, sample'.t)

C2_MonotoneParam == [](C2_ParamRange) /\ [][C2_MonotoneStep]_vars

\* a lookup in the wrap bracket, on the far side of the wrap boundary
C2_Witness ==
    /\ sample.nextIndex = 0
    /\ Len(demoData) > 1
    /\ sample.prev.time > sample.next.time
    /\ cycleTime < sample.next.time
    /\ sample.t.num > 0

\* C10: sampling at a cycle time equal to a keyframe time returns exactly
\* that keyframe's direction: prev is the keyframe at t, the parameter is 0
\* and the interpolation returns prev.
C10_SampleAtKeyframe ==
    \A i \in 1..Len(demoData) :
        (demoData[i].time = cycleTime /\ cycleTime < cycleDuration) =>
            /\ sample.prev.time = cycleTime
            /\ sample.t.num = 0
            /\ sample.direction = Vec(sample.prev)
            /\ sample.direction = Vec(demoData[i])

\* the two-keyframe segment {0, 12} over a 24-hour cycle, sampled at 12
C10_Witness ==
    /\ Len(demoData) = 2
    /\ demoData[1].time = 0
    /\ 2 * demoData[2].time = cycleDuration
    /\ cycleTime = demoData[2].time
    /\ sample.nextIndex = 0
    /\ sample.direction = DirAt(cycleTime)
    /\ sample.direction # Vec(sample.next)

----------------------------------------------------------------------------
(* Properties of the trail and of the controller *)

\* C3: after every tick, and whatever pause, resume and stop calls come
\* between, the trail holds at most maxTrailPoints points.
C3_TrailBounded == Len(trailPoints) <= maxTrailPoints

\* the capacity rule has just removed a point that was not too old
C3_Witness ==
    /\ Len(trailPoints) = maxTrailPoints
    /\ Len(pushed) > maxTrailPoints
    /\ lastTick.agedOut = 0

\* C4: a tick at wall-clock time now removes from the head exactly the
\* points with now - timestamp > trailFadeTime (the capacity rule may then
\* take one more); every point retained after the tick is at most
\* trailFadeTime old, and a point exactly trailFadeTime old is not aged out.
C4_Step ==
    (pushed' # pushed) =>
        LET now == lastTick'.nowMs
            before == Append(trailPoints, pushed'[Len(pushed')])
            Fresh(p) == now - p.timestamp <= trailFadeTime
            kept == SelectSeq(before, Fresh)
        IN  /\ trailPoints' \in {kept, Tail(kept)}
            /\ lastTick'.agedOut = Len(before) - Len(kept)
            /\ \A i \in 1..Len(trailPoints') :
                    now - trailPoints'[i].timestamp <= trailFadeTime

C4_AgeEviction == [][C4_Step]_vars

\* a tick aged a point out and kept one that is exactly trailFadeTime old
C4_Witness ==
    /\ lastTick.agedOut > 0
    /\ \E i \in 1..Len(trailPoints) :
            lastTick.nowMs - trailPoints[i].timestamp = trailFadeTime

C6_ElapsedContinues ==
    /\ (lastTick.n > 0 /\ ~lastTick.afterStop) => lastTick.elapsed = lastTick.active
    /\ (~stopped /\ isRunning) => clock - startTime = activeTime
    /\ (~stopped /\ ~isRunning) => pauseOffset = activeTime

\* the first tick after a resume that followed a pause of positive length,
\* taken up from a positive elapsed time
C6_Witness ==
    /\ ~stopped /\ isRunning /\ ~resumed
    /\ lastTick.afterResume
    /\ wallPaused > 0
    /\ pauseOffset > 0
    /\ lastTick.elapsed >= pauseOffset
    /\ lastTick.elapsed + wallPaused <= lastTick.nowMs

\* clamp(x, 0, 1) for x = (now - timestamp) / trailFadeTime
ClampedAge(now, timestamp) ==
    LET d == now - timestamp
    IN  Frac(IF d < 0 THEN 0 ELSE IF d > trailFadeTime THEN trailFadeTime ELSE d,
             trailFadeTime)

\* C17: the age uploaded for every retained trail point is
\* clamp((now - timestamp) / trailFadeTime, 0, 1): it lies in [0, 1], it is
\* 0 for the point pushed in that tick, and it never increases from head to
\* tail.
C17_NormalizedAge ==
    (lastTick.n > 0) =>
        /\ Len(lastTick.ages) = Len(trailPoints)
        /\ \A i \in 1..Len(trailPoints) :
                /\ lastTick.ages[i] =
                        ClampedAge(lastTick.nowMs, trailPoints[i].timestamp)
                /\ FracLeq(Frac(0, 1), lastTick.ages[i])
                /\ FracLeq(lastTick.ages[i], Frac(1, 1))
        /\ lastTick.ages[Len(trailPoints)].num = 0
        /\ \A i \in 1..(Len(trailPoints) - 1) :
                FracLeq(lastTick.ages[i + 1], lastTick.ages[i])

\* a tick uploaded a full trail whose head has age exactly 1 and whose
\* middle point lies strictly between
C17_Witness ==
    /\ Len(trailPoints) = maxTrailPoints
    /\ lastTick.ages[1].num = lastTick.ages[1].den
    /\ \E i \in 1..Len(trailPoints) :
            lastTick.ages[i].num > 0 /\ lastTick.ages[i].num < lastTick.ages[i].den
    /\ lastTick.ages[Len(trailPoints)].num = 0

\* C7: stop() is terminal: once it has returned, running stays false and no
\* tick runs again, whatever pause(), resume() or stop() calls follow.
C7_StopTerminal == stopped => (~isRunning /\ ~lastTick.afterStop)

----------------------------------------------------------------------------
(* Properties of the timeline that generateSegmentData builds *)

EarliestDirection ==
    Normalized(rad2Point(RadPoint(raw, keysOf(raw)[1]).direction))

\* C8: the timeline closes the loop: its last keyframe is at time 24 and has
\* the direction of the earliest raw keyframe.
C8_ClosesLoop ==
    (buildPc = "done") =>
        /\ res[Len(res)].time = DblOfInt(24)
        /\ Vec(res[Len(res)]) = EarliestDirection

\* C9: every timeline produced for a segment is non-empty and sorted
\* ascending by time, and no two of its keyframes share a time.
C9_DistinctTimes ==
    (buildPc = "done") =>
        /\ Len(res) >= 1
        /\ \A i \in 1..(Len(res) - 1) : DblLess(res[i].time, res[i + 1].time)

\* C11: building the timeline of a segment that has no keyframes raises an
\* error; the segment is not silently skipped.
C11_EmptySegmentRejected ==
    (keysOf(raw) = <<>> /\ buildPc \in {"empty", "returned"}) =>
        thrown # "none"

----------------------------------------------------------------------------
(* Properties of initWebGPUVisualization *)

BadDataset ==
    \/ Len(segments) = 0
    \/ Len(segments[1].directions) = 0
    \/ segments[1].directions[Len(segments[1].directions)].time <= 0

\* C12: for a dataset with no segment, or with a cycle duration that is zero
\* or negative, initWebGPUVisualization throws before it requests an
\* animation frame: no frame is pending, no tick has run, none will.
C12_RejectsBeforeAnimation ==
    (initPc # "start" /\ BadDataset) =>
        /\ initPc = "rejected"
        /\ thrown \in {"No segment data found.", "Demo data is empty."}
        /\ frames = {}
        /\ animationFrameId = 0
        /\ ~isRunning
        /\ lastTick.n = 0
        /\ trailPoints = <<>>

\* a dataset with one segment whose cycle duration is zero was rejected
C12_Witness ==
    /\ initPc = "rejected"
    /\ Len(segments) = 1
    /\ thrown = "Demo data is empty."
    /\ frames = {}

\* C22: from the return of pause() until resume() is called the render body
\* does not run: no trail push, no eviction, no frame request, and no frame
\* callback is left pending.
C22_NoTickWhilePaused ==
    [][(paused /\ paused') =>
            /\ pushed' = pushed
            /\ trailPoints' = trailPoints
            /\ lastTick' = lastTick
            /\ frames' \subseteq frames
            /\ frames' = {}]_vars

\* paused after some ticks, for longer than the frame interval
C22_Witness ==
    /\ paused /\ ~stopped
    /\ wallPaused >= 2
    /\ Len(pushed) >= 1
    /\ Len(trailPoints) >= 1

\* C23: at most one animation frame is pending, one is pending exactly when
\* running is true, and the frame a tick requests is requested after the
\* tick's trail update, at the tick's time.
C23_OneFramePending ==
    /\ Cardinality(frames) <= 1
    /\ (frames # {}) <=> isRunning
    /\ \A f \in frames : f.id = animationFrameId
    /\ (isRunning /\ lastTick.n > 0 /\ ~resumed) =>
            /\ \A f \in frames : f.at = lastTick.nowMs
            /\ Len(trailPoints) <= maxTrailPoints
            /\ \A i \in 1..Len(trailPoints) :
                    lastTick.nowMs - trailPoints[i].timestamp <= trailFadeTime

\* running again after ticks, a pause, a resume and further ticks
C23_Witness ==
    /\ isRunning /\ ~paused /\ ~resumed
    /\ lastTick.afterResume
    /\ wallPaused >= 1
    /\ lastTick.n >= 3
    /\ Cardinality(frames) = 1

\* what the tick did for segment i, in order
OpsOf(i) ==
    LET OfSegment(e) == e.idx = i /\ e.op \notin {"upload", "draw"}
        entries == SelectSeq(tickLog, OfSegment)
    IN  [k \in 1..Len(entries) |-> entries[k].op]

TimestampsOf(i) ==
    [k \in 1..Len(segmentTrails[i]) |-> segmentTrails[i][k].timestamp]

TickFinished == tickPc.at \in {"request", "idle"} /\ lastTick.n > 0

\* C24: a finished tick has, for every segment, bracketed and interpolated
\* at the one cycle time, then pushed one point stamped with the tick's one
\* nowMs, then evicted; all trails then have the same length and the same
\* timestamps.
C24_SegmentsInStep ==
    TickFinished =>
        /\ \A i \in 1..Len(segments) :
              /\ OpsOf(i) = <<"bracket", "interpolate", "push", "evict">>
              /\ Len(segmentTrails[i]) >= 1
              /\ segmentTrails[i][Len(segmentTrails[i])].timestamp
                    = lastTick.nowMs
              /\ TimestampsOf(i) = TimestampsOf(1)
        /\ \A k \in 1..Len(tickLog) :
              tickLog[k].time = IF tickLog[k].op \in {"bracket", "interpolate"}
                                THEN cycleTime ELSE lastTick.nowMs

\* three segments after ticks that have evicted a point
C24_Witness ==
    /\ TickFinished
    /\ tickPc.at = "idle"
    /\ Len(segments) = 3
    /\ lastTick.n >= 3
    /\ Len(segmentTrails[3]) < lastTick.n
    /\ Len(segmentTrails[3]) >= 2
    /\ segmentTrails[3] # segmentTrails[1]

\* C25: a zero span between the bracketing keyframes gives the parameter 0
\* and no division by zero; the ring's path sample at time = cycleDuration
\* on a timeline from time 0 to the cycle end is such a case, bracketed by
\* the last and the first keyframe.
C25_ZeroSpanStep ==
    (segmentPaths' # segmentPaths) =>
        LET data == segments[pathPc.idx].directions
            span == timeBetweenOf(sample'.prev, sample'.next, cycleDuration)
        IN  /\ sample'.t.den # 0
            /\ (span = 0) => sample'.t = Frac(0, 1)
            /\ ( /\ cycleTime' = cycleDuration
                 /\ data[1].time = 0
                 /\ data[Len(data)].time = cycleDuration ) =>
                    /\ sample'.prev = data[Len(data)]
                    /\ sample'.next = data[1]
                    /\ span = 0

C25_ZeroSpan == [][C25_ZeroSpanStep]_vars

\* the last sample of a path, at time = cycleDuration, with a zero span
C25_Witness ==
    /\ pathPc.at = "idle"
    /\ Len(segments) = 1
    /\ Len(segmentPaths[1]) = samples + 1
    /\ cycleTime = cycleDuration
    /\ sample.nextIndex = 0
    /\ sample.prevIndex = Len(segments[1].directions) - 1
    /\ timeBetweenOf(sample.prev, sample.next, cycleDuration) = 0
    /\ sample.t = Frac(0, 1)

\* C30: every trail upload and draw of a tick takes at most maxTrailPoints
\* points, the capacity of trailBuffer; the ring's path is generated once,
\* has samples + 1 = 241 points, and every path upload and draw takes at
\* most the 500 points of pathBuffer.
C30_WithinBuffers ==
    /\ \A k \in 1..Len(tickLog) :
          /\ (tickLog[k].op \in {"upload", "draw"}) =>
                tickLog[k].count <= maxTrailPoints
          /\ (tickLog[k].op \in {"uploadPath", "drawPath"}) =>
                /\ tickLog[k].count = samples + 1
                /\ tickLog[k].count <= pathBufferPoints
    /\ \A i \in 1..Len(segmentPaths) :
          Len(segmentPaths[i]) <= samples + 1

\* a full trail drawn after a point was dropped
C30_Witness ==
    /\ tickPc.at = "request"
    /\ lastTick.n > maxTrailPoints
    /\ \E k \in 1..Len(tickLog) :
          tickLog[k].op = "draw" /\ tickLog[k].count = maxTrailPoints

\* the path drawn in a tick after the one that generated it
C30_WitnessPath ==
    /\ pathPc.at = "idle"
    /\ lastTick.n >= 2
    /\ \E k \in 1..Len(tickLog) :
          tickLog[k].op = "drawPath" /\ tickLog[k].count = samples + 1

\* C26: every step of a constructed controller (tick, pause, resume, stop,
\* the passing of time) leaves the keyframe sequences unchanged, and every
\* step of building a timeline leaves the raw mapping unchanged, the
\* wrap-around entry at key 24 going to the clone.
C26_Step ==
    /\ (initPc = "running") => (demoData' = demoData /\ segments' = segments)
    /\ (buildPc # "idle") =>
            /\ raw' = raw
            /\ (keysOf(raw) # <<>> /\ buildPc' # "clone") =>
                    /\ dataCopy' = WithWrapAround(raw)
                    /\ \A e \in raw : e.key # DblOfInt(24)

C26_TimelinesImmutable == [][C26_Step]_vars

\* a timeline built from two raw entries, the clone holding a third
C26_Witness ==
    /\ buildPc = "returned"
    /\ Len(segments) = 1
    /\ Cardinality(raw) = 2
    /\ Cardinality(dataCopy) = 3
    /\ raw \subseteq dataCopy

\* ticks, a pause, a resume and a stop on one timeline
C26_WitnessController ==
    /\ initPc = "running"
    /\ stopped /\ lastTick.afterResume
    /\ lastTick.n >= 2
    /\ demoData = segments[1].directions

\* C29: trail timestamps are wall-clock times that pause and resume do not
\* shift.  After a pause longer than trailFadeTime the first tick evicts
\* every earlier point and leaves the one it pushed; a point pushed before a
\* pause that is at most trailFadeTime old at that tick, the pause counted,
\* stays in the trail.
C29_PauseAgesTrail ==
    (lastTick.afterResume /\ lastTick.pausedFor > 0) =>
        /\ (lastTick.pausedFor > trailFadeTime) =>
                /\ Len(trailPoints) = 1
                /\ trailPoints[1] = pushed[Len(pushed)]
        /\ \A k \in 1..Len(pushed) :
                ( /\ lastTick.nowMs - pushed[k].timestamp <= trailFadeTime
                  /\ k > Len(pushed) - maxTrailPoints ) =>
                    \E i \in 1..Len(trailPoints) : trailPoints[i] = pushed[k]
        /\ \A i \in 1..Len(trailPoints) :
                \E k \in 1..Len(pushed) :
                    /\ trailPoints[i] = pushed[k]
                    /\ lastTick.nowMs - pushed[k].timestamp <= trailFadeTime

\* the first tick after a pause longer than trailFadeTime, a point having
\* been in the trail when the pause began
C29_Witness ==
    /\ lastTick.afterResume
    /\ lastTick.pausedFor > trailFadeTime
    /\ Len(pushed) >= 2
    /\ Len(trailPoints) = 1

\* the first tick after a shorter pause, an earlier point still in the trail
C29_WitnessShortPause ==
    /\ lastTick.afterResume
    /\ lastTick.pausedFor > 0
    /\ lastTick.pausedFor < trailFadeTime
    /\ Len(trailPoints) >= 2
    /\ trailPoints[1].timestamp < lastTick.nowMs - lastTick.pausedFor

\* C27: every controller that initWebGPUVisualization has returned is the
\* one the page references or has been stopped, and at most one is running.
C27_NoOrphanController ==
    /\ \A id \in 1..Len(created) :
            created[id] = "stopped" \/ id = controller
    /\ Cardinality({id \in 1..Len(created) : created[id] = "running"}) <= 1

\* C28: a render tick runs only while the state isRunning is true, and an
\* effect whose cleanup has run has no loop left.
C28_Step ==
    /\ \A e \in 1..Len(effects) :
            (effects'[e].ticks > effects[e].ticks) => reactIsRunning
    /\ \A e \in 1..Len(effects') :
            effects'[e].cleaned => effects'[e].pc # "looping"

C28_NoTickWhilePaused == [][C28_Step]_vars

====
